---- MODULE Spec2Model ----
(***************************************************************************)
(* Model of the crosslingual-information-retrieval feature pipeline:       *)
(*   - DataSet.get_sample                 (src/src/data/dataset_class.py)  *)
(*   - FeatureGeneration.feature_generation                                *)
(*                         (src/src/features/feature_generation_class.py)  *)
(*   - remove_punctuation, number_punctuations_total, number_words,        *)
(*     number_unique_words, word_embeddings, create_translation_dictionary *)
(*                                     (src/src/data/preprocess_data.py)   *)
(* Each component has its own specification over its own variables; the    *)
(* variables of the other components keep their initial value.             *)
(***************************************************************************)
EXTENDS Integers, Sequences, FiniteSets, TLC

VARIABLES
    \* DataSet
    preprocessed_dataframe, preprocessed_source, preprocessed_target,
    dataset, last_call, last_success,
    \* FeatureGeneration
    preprocessed_dataset, feature_dataframe, fg_pc, fg_index,
    \* token statistics of preprocess_data.py
    token_vector, res_remove_punctuation, res_number_punctuations_total,
    res_number_words, res_number_unique_words,
    \* word_embeddings
    we_token_vector, embedding_dictionary, res_word_embeddings,
    \* create_translation_dictionary
    token_vector_source, token_vector_target,
    embedding_dictionary_source, embedding_dictionary_target,
    res_translation

ds_vars == <<preprocessed_dataframe, preprocessed_source, preprocessed_target,
             dataset, last_call, last_success>>
fg_vars == <<preprocessed_dataset, feature_dataframe, fg_pc, fg_index>>
pp_vars == <<token_vector, res_remove_punctuation, res_number_punctuations_total,
             res_number_words, res_number_unique_words>>
we_vars == <<we_token_vector, embedding_dictionary, res_word_embeddings>>
td_vars == <<token_vector_source, token_vector_target,
             embedding_dictionary_source, embedding_dictionary_target,
             res_translation>>
vars == <<ds_vars, fg_vars, pp_vars, we_vars, td_vars>>

\* ------------------------------------------------------------------------
\* Generic helpers
\* ------------------------------------------------------------------------
Range(s) == {s[i] : i \in DOMAIN s}

\* All sequences over S of length at most k.
SeqsUpTo(S, k) == UNION {[1..m -> S] : m \in 0..k}

\* A result slot of a function that has not been applied yet / has returned v.
NotCalled == [called |-> FALSE]
Returned(v) == [called |-> TRUE, value |-> v]

\* ------------------------------------------------------------------------
\* DataSet (dataset_class.py)
\* ------------------------------------------------------------------------
MaxRows == 2
MaxN == 3

\* Row i of the parallel data as the three frames of the preprocessed class
\* hold it: the aligned pair, the source side alone, the target side alone.
\* The pair carries the label of a true translation, which is not 0.
PairRow(i) == [sentence_source |-> i, sentence_target |-> i, Translation |-> 1]
SourceRow(i) == [sentence_source |-> i]
TargetRow(j) == [sentence_target |-> j]

\* DataSet.__init__: self.dataset = pd.DataFrame (the class, not a frame).
UnsetDataFrame == <<[class |-> "pd.DataFrame"]>>

\* DataFrame.sample(n): n distinct rows of the frame in a random order
\* (replace=False), re-indexed 0..n-1; the empty set when n exceeds the frame.
Sample(frame, n) ==
    {[k \in 1..n |-> frame[p[k]]] :
        p \in {q \in [1..n -> DOMAIN frame] :
                  \A a, b \in 1..n : a # b => q[a] # q[b]}}

\* DataFrame.sample(n) raises ValueError when n is larger than the population.
SampleRaises(frame, n) == n > Len(frame)

\* pd.concat([source, target], axis=1) on two frames indexed 0..n-1, followed
\* by the Translation column of zeros.
WrongRows(src, tgt) ==
    [k \in DOMAIN src |->
        [sentence_source |-> src[k].sentence_source,
         sentence_target |-> tgt[k].sentence_target,
         Translation |-> 0]]

\* Faulty variant of NewDataset: the new sample is appended to the old rows.
NewDatasetAppending(old, right, wrong) == old \o right \o wrong

\* self.dataset = pd.concat([right, wrong]).reset_index(drop=True)
NewDataset(old, right, wrong) == right \o wrong

\* Faulty variant of DatasetAfterRaise: the dataset is emptied before sampling.
DatasetAfterRaiseCleared(old) == <<>>

\* The exception leaves get_sample before line 21 assigns self.dataset.
DatasetAfterRaise(old) == old

DSInit ==
    /\ \E a, b, c \in 0..MaxRows :
         /\ preprocessed_dataframe = [i \in 1..a |-> PairRow(i)]
         /\ preprocessed_source = [i \in 1..b |-> SourceRow(i)]
         /\ preprocessed_target = [i \in 1..c |-> TargetRow(i)]
    /\ dataset = UnsetDataFrame
    /\ last_call = [n |-> -1, outcome |-> "none"]
    /\ last_success = -1

GetSampleReturns(n) ==
    /\ ~SampleRaises(preprocessed_dataframe, n)
    /\ ~SampleRaises(preprocessed_source, n)
    /\ ~SampleRaises(preprocessed_target, n)
    /\ \E random_sample_right \in Sample(preprocessed_dataframe, n),
          src \in Sample(preprocessed_source, n),
          tgt \in Sample(preprocessed_target, n) :
         dataset' = NewDataset(dataset, random_sample_right, WrongRows(src, tgt))
    /\ last_call' = [n |-> n, outcome |-> "returned"]
    /\ last_success' = n
    /\ UNCHANGED <<preprocessed_dataframe, preprocessed_source, preprocessed_target>>

GetSampleRaises(n) ==
    /\ \/ SampleRaises(preprocessed_dataframe, n)
       \/ SampleRaises(preprocessed_source, n)
       \/ SampleRaises(preprocessed_target, n)
    /\ dataset' = DatasetAfterRaise(dataset)
    /\ last_call' = [n |-> n, outcome |-> "ValueError"]
    /\ UNCHANGED <<preprocessed_dataframe, preprocessed_source, preprocessed_target,
                   last_success>>

\* ------------------------------------------------------------------------
\* FeatureGeneration (feature_generation_class.py)
\* ------------------------------------------------------------------------
MaxRowsFG == 2
CellValues == {0, 1}

\* FeatureGeneration.__init__: self.feature_difference_list.  The grave accent
\* cannot occur in a TLA+ string: it is written U+0060.
feature_difference_list ==
    << "number_punctuations_total", "number_words",
       "number_unique_words", "number_!", "number_\"",
       "number_#", "number_$", "number_%",
       "number_&", "number_'", "number_(",
       "number_)", "number_*", "number_+",
       "number_,", "number_-", "number_.",
       "number_/", "number_:", "number_;",
       "number_<", "number_=", "number_>",
       "number_?", "number_@", "number_[",
       "number_\\", "number_]", "number_^",
       "number__", "number_U+0060", "number_{",
       "number_|", "number_}", "number_~",
       "number_characters", "characters_avg",
       "number_ADJ", "number_ADP",
       "number_ADV", "number_AUX", "number_CONJ",
       "number_CCONJ", "number_DET", "number_INTJ",
       "number_NOUN", "number_NUM", "number_PRT",
       "number_PRON", "number_PROPN", "number_SCONJ",
       "number_SYM", "number_VERB", "number_X",
       "number_Pres", "number_Past", "number_",
       "score_polarity", "score_subjectivity",
       "number_stopwords" >>

\* A DataFrame: its column labels in order, and the values of each column.
EmptyDataFrame == [columns |-> <<>>, data |-> <<>>]

\* df[name] = values: a new label is appended, an existing one overwritten.
SetColumn(df, name, values) ==
    [columns |-> IF name \in Range(df.columns) THEN df.columns
                 ELSE Append(df.columns, name),
     data |-> (name :> values) @@ df.data]

\* Faulty variant of RelativeColumn: the relative difference is stored under the
\* label of the plain difference.
RelativeColumnMislabelled(feature) == feature \o "_difference"

\* f"{feature}_source", f"{feature}_target" and the three derived labels.
SourceColumn(feature) == feature \o "_source"
TargetColumn(feature) == feature \o "_target"
DifferenceColumn(feature) == feature \o "_difference"
RelativeColumn(feature) == feature \o "_difference_relative"
NormalizedColumn(feature) == feature \o "_difference_normalized"

\* src.features.sentence_based is not part of the sources: the three
\* comparison functions are kept uninterpreted, applied row by row.
difference_numerical(source, target) ==
    [r \in DOMAIN source |-> <<"difference_numerical", source[r], target[r]>>]
relative_difference_numerical(source, target) ==
    [r \in DOMAIN source |->
        <<"relative_difference_numerical", source[r], target[r]>>]
normalized_difference_numerical(source, target, len_source, len_target) ==
    [r \in DOMAIN source |->
        <<"normalized_difference_numerical", source[r], target[r],
          len_source[r], len_target[r]>>]

\* Series + Series on the same index.
SeriesAdd(x, y) == [r \in DOMAIN x |-> x[r] + y[r]]

\* Body of the for loop of feature_generation for one feature.
FeatureColumns(df, pd, feature) ==
    LET s == pd[SourceColumn(feature)]
        t == pd[TargetColumn(feature)]
        ls == SeriesAdd(pd["number_punctuations_total_source"],
                        pd["number_words_source"])
        lt == SeriesAdd(pd["number_punctuations_total_target"],
                        pd["number_words_target"])
        d1 == SetColumn(df, DifferenceColumn(feature), difference_numerical(s, t))
        d2 == SetColumn(d1, RelativeColumn(feature),
                        relative_difference_numerical(s, t))
    IN SetColumn(d2, NormalizedColumn(feature),
                 normalized_difference_numerical(s, t, ls, lt))

\* The columns feature_generation reads.
RequiredColumns ==
    {SourceColumn(feature_difference_list[k]) : k \in DOMAIN feature_difference_list}
    \cup {TargetColumn(feature_difference_list[k]) : k \in DOMAIN feature_difference_list}
    \cup {"Translation"}

\* A preprocessed dataset with every required column and one further column.
\* Row r is built from a triple (s, t, label); the columns of distinct features
\* hold distinct values.
DatasetOf(base) ==
    [c \in RequiredColumns \cup {"id"} |->
        [r \in DOMAIN base |->
            IF c = "Translation" THEN base[r].label
            ELSE IF c = "id" THEN r
            ELSE IF \E k \in DOMAIN feature_difference_list :
                        c = SourceColumn(feature_difference_list[k])
                 THEN base[r].s + 2 * (CHOOSE k \in DOMAIN feature_difference_list :
                                           c = SourceColumn(feature_difference_list[k]))
                 ELSE base[r].t + 3 * (CHOOSE k \in DOMAIN feature_difference_list :
                                           c = TargetColumn(feature_difference_list[k]))]]

FGInit ==
    /\ \E base \in SeqsUpTo([s : CellValues, t : CellValues, label : {0, 1}], MaxRowsFG) :
          preprocessed_dataset = DatasetOf(base)
    /\ feature_dataframe = EmptyDataFrame
    /\ fg_pc = "idle"
    /\ fg_index = 0

\* feature_generation() is entered (a first time, or again on the same object).
FeatureGenerationEnter ==
    /\ fg_pc \in {"idle", "done"}
    /\ fg_pc' = "loop"
    /\ fg_index' = 1
    /\ UNCHANGED <<preprocessed_dataset, feature_dataframe>>

\* One iteration of the for loop.
FeatureGenerationStep ==
    /\ fg_pc = "loop"
    /\ fg_index <= Len(feature_difference_list)
    /\ feature_dataframe' = FeatureColumns(feature_dataframe, preprocessed_dataset,
                                           feature_difference_list[fg_index])
    /\ fg_index' = fg_index + 1
    /\ UNCHANGED <<preprocessed_dataset, fg_pc>>

\* After the loop: the Translation column is copied and the method returns.
FeatureGenerationFinish ==
    /\ fg_pc = "loop"
    /\ fg_index > Len(feature_difference_list)
    /\ feature_dataframe' = SetColumn(feature_dataframe, "Translation",
                                      preprocessed_dataset["Translation"])
    /\ fg_pc' = "done"
    /\ UNCHANGED <<preprocessed_dataset, fg_index>>

\* ------------------------------------------------------------------------
\* Token statistics (preprocess_data.py)
\* A token is a Python str, modelled as the sequence of its characters; the
\* characters that cannot occur in a TLA+ string are written U+0060 (grave
\* accent) and U+2019 (right single quotation mark).
\* Series.apply(f) is the row-wise map [r \in DOMAIN series |-> f(series[r])],
\* a list comprehension with a condition is SelectSeq.
\* ------------------------------------------------------------------------
MaxLen == 3

\* string.punctuation
string_punctuation ==
    << "!", "\"", "#", "$", "%", "&", "'", "(", ")", "*", "+", ",", "-", ".",
       "/", ":", ";", "<", "=", ">", "?", "@", "[", "\\", "]", "^", "_",
       "U+0060", "{", "|", "}", "~" >>

\* Python's 'a in b' for two str: a is a contiguous substring of b.
StrContains(b, a) ==
    \E i \in 1..(Len(b) - Len(a) + 1) : SubSeq(b, i, i + Len(a) - 1) = a

\* Python's 'a in b' for a list b: a equals an element of b.
ListContains(b, a) == \E i \in DOMAIN b : b[i] = a

\* remove_punctuation: punctuations is one str, 'word not in punctuations' a
\* substring test.
punctuations == string_punctuation \o <<"U+2019">> \o <<".", ".", ".">> \o <<"'">>
remove_punctuation(tv) ==
    [r \in DOMAIN tv |->
        SelectSeq(tv[r], LAMBDA word : ~StrContains(punctuations, word))]

\* Faulty variant of list_pm: the sentence point is not removed.
list_pm_with_point ==
    [i \in DOMAIN string_punctuation |-> <<string_punctuation[i]>>]
    \o << <<".", ".", ".">> >>

\* number_punctuations_total: list_pm is a list of str, 'word in list_pm' a
\* membership test.
list_pm ==
    LET chars == [i \in DOMAIN string_punctuation |-> <<string_punctuation[i]>>]
        point == CHOOSE i \in DOMAIN chars : chars[i] = <<".">>
    IN SubSeq(chars, 1, point - 1) \o SubSeq(chars, point + 1, Len(chars))
       \o << <<".", ".", ".">> >>
number_punctuations_total(sv) ==
    [r \in DOMAIN sv |->
        Len(SelectSeq(sv[r], LAMBDA word : ListContains(list_pm, word)))]

\* number_words / number_unique_words: 'word not in string.punctuation' is a
\* substring test on the str string.punctuation.
IsCountedWord(word) == ~StrContains(string_punctuation, word)
number_words(sv) ==
    [r \in DOMAIN sv |-> Len(SelectSeq(sv[r], IsCountedWord))]
number_unique_words(sv) ==
    [r \in DOMAIN sv |-> Cardinality(Range(SelectSeq(sv[r], IsCountedWord)))]

\* The tokens of the inputs: two words, punctuation marks, the empty token and
\* tokens of several punctuation characters.
Tokens ==
    { <<"a">>, <<"b">>, <<",">>, <<".">>, <<".", ".", ".">>, <<"U+2019">>,
      <<>>, <<"(", ")">>, <<"-", "-">> }

TokenVectors ==
    {<<>>} \cup {<<s>> : s \in SeqsUpTo(Tokens, MaxLen)}
    \cup {<<s1, s2>> : s1 \in SeqsUpTo(Tokens, 1), s2 \in SeqsUpTo(Tokens, 1)}

PPInit ==
    /\ token_vector \in TokenVectors
    /\ res_remove_punctuation = NotCalled
    /\ res_number_punctuations_total = NotCalled
    /\ res_number_words = NotCalled
    /\ res_number_unique_words = NotCalled

CallRemovePunctuation ==
    /\ res_remove_punctuation' = Returned(remove_punctuation(token_vector))
    /\ UNCHANGED <<token_vector, res_number_punctuations_total, res_number_words,
                   res_number_unique_words>>

CallNumberPunctuationsTotal ==
    /\ res_number_punctuations_total' = Returned(number_punctuations_total(token_vector))
    /\ UNCHANGED <<token_vector, res_remove_punctuation, res_number_words,
                   res_number_unique_words>>

CallNumberWords ==
    /\ res_number_words' = Returned(number_words(token_vector))
    /\ UNCHANGED <<token_vector, res_remove_punctuation,
                   res_number_punctuations_total, res_number_unique_words>>

CallNumberUniqueWords ==
    /\ res_number_unique_words' = Returned(number_unique_words(token_vector))
    /\ UNCHANGED <<token_vector, res_remove_punctuation,
                   res_number_punctuations_total, res_number_words>>

\* ------------------------------------------------------------------------
\* Embeddings (preprocess_data.py)
\* ------------------------------------------------------------------------
ArrRows == 3
MaxLenWE == 3
MaxLenTD == 2

\* Rows of a normalized embedding array (load_embeddings divides every row by
\* its norm): unit vectors, here of dimension two.
UnitVectors == << <<1, 0>>, <<0, 1>>, <<-1, 0>>, <<0, -1>> >>

\* The embedding arrays, indexed from 0 as numpy arrays are.
embedding_array == [i \in 0..(ArrRows - 1) |-> UnitVectors[(i % Len(UnitVectors)) + 1]]
embedding_array_normalized_source == embedding_array
embedding_array_normalized_target ==
    [i \in 0..(ArrRows - 1) |-> UnitVectors[((i + 1) % Len(UnitVectors)) + 1]]

\* The embedding dictionaries map a token to its row index; every index is used
\* by at most one token.
Dictionaries(keys) ==
    {d \in [keys -> 0..(ArrRows - 1)] : \A a, b \in keys : a # b => d[a] # d[b]}
PartialDictionaries(vocabulary) ==
    UNION {Dictionaries(keys) : keys \in SUBSET vocabulary}

\* 'if dictionary.get(token):' dict.get returns None for a missing key, and
\* None and the index 0 are both falsy.
GetIsTruthy(dictionary, token) == token \in DOMAIN dictionary /\ dictionary[token] # 0

\* word_embeddings.token_list_embedding: the loop over token_list filling
\* word_embedding_dictionary, and pd.DataFrame(word_embedding_dictionary).
RECURSIVE token_list_embedding_loop(_, _, _, _)
token_list_embedding_loop(array, dictionary, token_list, frame) ==
    IF token_list = <<>> THEN frame
    ELSE token_list_embedding_loop(array, dictionary, Tail(token_list),
            IF GetIsTruthy(dictionary, token_list[1])
            THEN SetColumn(frame, token_list[1], array[dictionary[token_list[1]]])
            ELSE frame)
token_list_embedding(array, dictionary, token_list) ==
    token_list_embedding_loop(array, dictionary, token_list, EmptyDataFrame)

word_embeddings(tv, array, dictionary) ==
    [r \in DOMAIN tv |-> token_list_embedding(array, dictionary, tv[r])]

Vocabulary == {"a", "b"}
WETokens == Vocabulary \cup {"c"}

WEInit ==
    /\ we_token_vector \in {<<>>} \cup {<<s>> : s \in SeqsUpTo(WETokens, MaxLenWE)}
    /\ embedding_dictionary \in PartialDictionaries(Vocabulary)
    /\ res_word_embeddings = NotCalled

CallWordEmbeddings ==
    /\ res_word_embeddings' =
          Returned(word_embeddings(we_token_vector, embedding_array, embedding_dictionary))
    /\ UNCHANGED <<we_token_vector, embedding_dictionary>>

\* create_translation_dictionary -------------------------------------------

\* set([item for sublist in token_vector for item in sublist])
UniqueTokens(tv) == UNION {Range(tv[r]) : r \in DOMAIN tv}

\* The tokens that enter word_embedding_dictionary_* / embedding_subset_*.
SubsetTokens(tv, dictionary) ==
    {token \in UniqueTokens(tv) : GetIsTruthy(dictionary, token)}

\* np.dot of two embedding rows.
RECURSIVE SumDot(_, _, _)
SumDot(u, v, k) == IF k = 0 THEN 0 ELSE u[k] * v[k] + SumDot(u, v, k - 1)
Dot(u, v) == SumDot(u, v, Len(u))

\* translation(): the tokens np.argsort(-similarity_cos)[0] can name, the
\* candidates of greatest dot product; which of several equal ones comes first
\* depends on the iteration order of the token set.
TranslationCandidates(token, array_from, dictionary_from, array_to, dictionary_to, tokens_to) ==
    LET emb == array_from[dictionary_from[token]]
        sim(t) == Dot(emb, array_to[dictionary_to[t]])
    IN {t \in tokens_to : \A o \in tokens_to : sim(t) >= sim(o)}

\* np.dot raises ValueError when the other side's embedding subset is empty.
TranslationRaises(tokens_from, tokens_to) == tokens_from # {} /\ tokens_to = {}

SourceVocabulary == {"haus", "katze"}
TargetVocabulary == {"house", "cat"}

TDInit ==
    /\ token_vector_source \in
          {<<s>> : s \in SeqsUpTo(SourceVocabulary \cup {"xyz"}, MaxLenTD)}
    /\ token_vector_target \in
          {<<s>> : s \in SeqsUpTo(TargetVocabulary \cup {"qqq"}, MaxLenTD)}
    /\ embedding_dictionary_source \in Dictionaries(SourceVocabulary)
    /\ embedding_dictionary_target \in Dictionaries(TargetVocabulary)
    /\ res_translation = NotCalled

CreateTranslationDictionaryReturns ==
    LET src == SubsetTokens(token_vector_source, embedding_dictionary_source)
        tgt == SubsetTokens(token_vector_target, embedding_dictionary_target)
    IN /\ ~TranslationRaises(src, tgt)
       /\ ~TranslationRaises(tgt, src)
       /\ \E to_target \in [src -> tgt], to_source \in [tgt -> src] :
            /\ \A token \in src : to_target[token] \in
                  TranslationCandidates(token,
                      embedding_array_normalized_source, embedding_dictionary_source,
                      embedding_array_normalized_target, embedding_dictionary_target, tgt)
            /\ \A token \in tgt : to_source[token] \in
                  TranslationCandidates(token,
                      embedding_array_normalized_target, embedding_dictionary_target,
                      embedding_array_normalized_source, embedding_dictionary_source, src)
            /\ res_translation' =
                  [called |-> TRUE, outcome |-> "returned",
                   translation_to_target_source |-> to_target,
                   translation_to_source_target |-> to_source]
       /\ UNCHANGED <<token_vector_source, token_vector_target,
                      embedding_dictionary_source, embedding_dictionary_target>>

CreateTranslationDictionaryRaises ==
    LET src == SubsetTokens(token_vector_source, embedding_dictionary_source)
        tgt == SubsetTokens(token_vector_target, embedding_dictionary_target)
    IN /\ TranslationRaises(src, tgt) \/ TranslationRaises(tgt, src)
       /\ res_translation' = [called |-> TRUE, outcome |-> "ValueError"]
       /\ UNCHANGED <<token_vector_source, token_vector_target,
                      embedding_dictionary_source, embedding_dictionary_target>>

\* ------------------------------------------------------------------------
\* Specifications
\* ------------------------------------------------------------------------
DSOff ==
    /\ preprocessed_dataframe = <<>> /\ preprocessed_source = <<>>
    /\ preprocessed_target = <<>> /\ dataset = UnsetDataFrame
    /\ last_call = [n |-> -1, outcome |-> "none"] /\ last_success = -1
FGOff ==
    /\ preprocessed_dataset = <<>> /\ feature_dataframe = EmptyDataFrame
    /\ fg_pc = "off" /\ fg_index = 0
PPOff ==
    /\ token_vector = <<>> /\ res_remove_punctuation = NotCalled
    /\ res_number_punctuations_total = NotCalled
    /\ res_number_words = NotCalled /\ res_number_unique_words = NotCalled
WEOff ==
    /\ we_token_vector = <<>> /\ embedding_dictionary = <<>>
    /\ res_word_embeddings = NotCalled
TDOff ==
    /\ token_vector_source = <<>> /\ token_vector_target = <<>>
    /\ embedding_dictionary_source = <<>> /\ embedding_dictionary_target = <<>>
    /\ res_translation = NotCalled

\* DataSet
Init == DSInit /\ FGOff /\ PPOff /\ WEOff /\ TDOff
Next ==
    \/ \E n \in 0..MaxN : GetSampleReturns(n) /\ UNCHANGED <<fg_vars, pp_vars, we_vars, td_vars>>
    \/ \E n \in 0..MaxN : GetSampleRaises(n) /\ UNCHANGED <<fg_vars, pp_vars, we_vars, td_vars>>
Spec == Init /\ [][Next]_vars

\* FeatureGeneration
InitFG == DSOff /\ FGInit /\ PPOff /\ WEOff /\ TDOff
NextFG ==
    \/ FeatureGenerationEnter /\ UNCHANGED <<ds_vars, pp_vars, we_vars, td_vars>>
    \/ FeatureGenerationStep /\ UNCHANGED <<ds_vars, pp_vars, we_vars, td_vars>>
    \/ FeatureGenerationFinish /\ UNCHANGED <<ds_vars, pp_vars, we_vars, td_vars>>
SpecFG == InitFG /\ [][NextFG]_vars

\* Token statistics
InitPP == DSOff /\ FGOff /\ PPInit /\ WEOff /\ TDOff
NextPP ==
    \/ CallRemovePunctuation /\ UNCHANGED <<ds_vars, fg_vars, we_vars, td_vars>>
    \/ CallNumberPunctuationsTotal /\ UNCHANGED <<ds_vars, fg_vars, we_vars, td_vars>>
    \/ CallNumberWords /\ UNCHANGED <<ds_vars, fg_vars, we_vars, td_vars>>
    \/ CallNumberUniqueWords /\ UNCHANGED <<ds_vars, fg_vars, we_vars, td_vars>>
SpecPP == InitPP /\ [][NextPP]_vars

\* word_embeddings
InitWE == DSOff /\ FGOff /\ PPOff /\ WEInit /\ TDOff
NextWE == CallWordEmbeddings /\ UNCHANGED <<ds_vars, fg_vars, pp_vars, td_vars>>
SpecWE == InitWE /\ [][NextWE]_vars

\* create_translation_dictionary
InitTD == DSOff /\ FGOff /\ PPOff /\ WEOff /\ TDInit
NextTD ==
    \/ CreateTranslationDictionaryReturns /\ UNCHANGED <<ds_vars, fg_vars, pp_vars, we_vars>>
    \/ CreateTranslationDictionaryRaises /\ UNCHANGED <<ds_vars, fg_vars, pp_vars, we_vars>>
SpecTD == InitTD /\ [][NextTD]_vars

\* ------------------------------------------------------------------------
\* Properties
\* ------------------------------------------------------------------------

\* C1: once a call get_sample(n) has succeeded and no later call has, dataset
\* has exactly 2n rows, the first n being rows of preprocessed_dataframe and the
\* last n rows labelled Translation = 0 built from a row of preprocessed_source
\* and a row of preprocessed_target; nothing of an earlier call remains.
C1_SampleShape ==
    last_success >= 0 =>
        /\ Len(dataset) = 2 * last_success
        /\ \A k \in 1..last_success : dataset[k] \in Range(preprocessed_dataframe)
        /\ \A k \in (last_success + 1)..(2 * last_success) :
              /\ dataset[k].Translation = 0
              /\ SourceRow(dataset[k].sentence_source) \in Range(preprocessed_source)
              /\ TargetRow(dataset[k].sentence_target) \in Range(preprocessed_target)

\* A sample of two right and two wrong rows, still in place after a later call
\* that raised.
C1_Witness ==
    /\ last_success = 2
    /\ last_call.outcome = "ValueError"
    /\ Len(dataset) = 4

\* C2: every row labelled Translation = 0 pairs a source sentence and a target
\* sentence of two different rows of the parallel data.
C2_WrongRowsMismatched ==
    last_success >= 0 =>
        \A k \in DOMAIN dataset :
            dataset[k].Translation = 0 =>
                dataset[k].sentence_source # dataset[k].sentence_target

\* C3: when feature_generation has returned, feature_dataframe has exactly the
\* three derived columns of each of the 60 features plus Translation (181
\* columns), each derived column computed row by row from the feature's source
\* and target columns, Translation equal to the input's, one row per input row.
C3_FeatureColumns ==
    fg_pc = "done" =>
        LET names == Range(feature_difference_list)
            rows == DOMAIN preprocessed_dataset["Translation"]
            derived == {f \o "_difference" : f \in names}
                       \cup {f \o "_difference_relative" : f \in names}
                       \cup {f \o "_difference_normalized" : f \in names}
            data == feature_dataframe.data
            len_source == SeriesAdd(preprocessed_dataset["number_punctuations_total_source"],
                                    preprocessed_dataset["number_words_source"])
            len_target == SeriesAdd(preprocessed_dataset["number_punctuations_total_target"],
                                    preprocessed_dataset["number_words_target"])
        IN /\ Cardinality(names) = 60
           /\ Range(feature_dataframe.columns) = derived \cup {"Translation"}
           /\ DOMAIN data = derived \cup {"Translation"}
           /\ Len(feature_dataframe.columns) = 181
           /\ \A f \in names :
                LET src == preprocessed_dataset[f \o "_source"]
                    tgt == preprocessed_dataset[f \o "_target"]
                IN /\ data[f \o "_difference"] = difference_numerical(src, tgt)
                   /\ data[f \o "_difference_relative"] =
                         relative_difference_numerical(src, tgt)
                   /\ data[f \o "_difference_normalized"] =
                         normalized_difference_numerical(src, tgt, len_source, len_target)
           /\ data["Translation"] = preprocessed_dataset["Translation"]
           /\ \A c \in DOMAIN data : DOMAIN data[c] = rows

\* feature_generation has returned on a dataset of two rows with both labels.
C3_Witness ==
    /\ fg_pc = "done"
    /\ preprocessed_dataset["Translation"] = <<1, 0>>
    /\ Len(feature_dataframe.columns) = 181

\* A punctuation mark: one character of string.punctuation, the mark U+2019,
\* or the mark "...".
IsPunctuationMark(token) ==
    \/ Len(token) = 1 /\ token[1] \in Range(string_punctuation)
    \/ token = <<"U+2019">>
    \/ token = <<".", ".", ".">>

\* C4: remove_punctuation returns, for every token list, exactly the tokens
\* that are not a punctuation mark, in their original order.
C4_RemovesExactlyPunctuation ==
    res_remove_punctuation.called =>
        \A r \in DOMAIN token_vector :
            res_remove_punctuation.value[r] =
                SelectSeq(token_vector[r], LAMBDA token : ~IsPunctuationMark(token))

\* C5: number_punctuations_total counts, for every token list, the occurrences
\* of tokens equal to one character of string.punctuation other than ".", or
\* equal to "...", and nothing else.
C5_CountsPunctuation ==
    res_number_punctuations_total.called =>
        \A r \in DOMAIN token_vector :
            res_number_punctuations_total.value[r] =
                Cardinality({i \in DOMAIN token_vector[r] :
                    LET token == token_vector[r][i]
                    IN \/ /\ Len(token) = 1
                          /\ token[1] \in Range(string_punctuation)
                          /\ token[1] # "."
                       \/ token = <<".", ".", ".">>})

\* A token list holding a comma, a sentence point and an ellipsis: two of the
\* three are counted.
C5_Witness ==
    /\ res_number_punctuations_total.called
    /\ token_vector = << << <<",">>, <<".">>, <<".", ".", ".">> >> >>
    /\ res_number_punctuations_total.value = <<2>>

\* A word: a token with at least one character that is not a punctuation
\* character.
IsWord(token) ==
    \E i \in DOMAIN token : token[i] \notin Range(string_punctuation) \cup {"U+2019"}

\* C6: number_words is the number of tokens that are words, number_unique_words
\* the number of distinct words; number_unique_words <= number_words, with
\* equality exactly when no word occurs twice.
C6_WordCounts ==
    (res_number_words.called /\ res_number_unique_words.called) =>
        \A r \in DOMAIN token_vector :
            LET sentence == token_vector[r]
                positions == {i \in DOMAIN sentence : IsWord(sentence[i])}
                nw == res_number_words.value[r]
                nu == res_number_unique_words.value[r]
            IN /\ nw = Cardinality(positions)
               /\ nu = Cardinality({sentence[i] : i \in positions})
               /\ nu <= nw
               /\ (nu = nw) <=>
                     (\A i, j \in positions : i # j => sentence[i] # sentence[j])

\* C7: the returned source-to-target dictionary has as keys exactly the distinct
\* source tokens that are keys of embedding_dictionary_source, each mapped to a
\* token of greatest dot product among the distinct target tokens that are keys
\* of embedding_dictionary_target; the target-to-source dictionary likewise.
\* Stated for the inputs on which both dictionaries of the claim exist: each
\* side has at least one token that is a key of its embedding dictionary.
C7_TranslationDictionary ==
    (/\ res_translation.called
     /\ res_translation.outcome = "returned"
     /\ UniqueTokens(token_vector_source) \cap DOMAIN embedding_dictionary_source # {}
     /\ UniqueTokens(token_vector_target) \cap DOMAIN embedding_dictionary_target # {}) =>
        LET src == UniqueTokens(token_vector_source) \cap DOMAIN embedding_dictionary_source
            tgt == UniqueTokens(token_vector_target) \cap DOMAIN embedding_dictionary_target
            es(t) == embedding_array_normalized_source[embedding_dictionary_source[t]]
            et(t) == embedding_array_normalized_target[embedding_dictionary_target[t]]
            to_target == res_translation.translation_to_target_source
            to_source == res_translation.translation_to_source_target
        IN /\ DOMAIN to_target = src
           /\ \A s \in src :
                /\ to_target[s] \in tgt
                /\ \A o \in tgt : Dot(es(s), et(to_target[s])) >= Dot(es(s), et(o))
           /\ DOMAIN to_source = tgt
           /\ \A t \in tgt :
                /\ to_source[t] \in src
                /\ \A o \in src : Dot(et(t), es(to_source[t])) >= Dot(et(t), es(o))

\* C8: for every token list word_embeddings returns one column per distinct
\* token that is a key of embedding_dictionary, holding the row of
\* embedding_array at the token's index, and no other column.
C8_EmbeddingColumns ==
    res_word_embeddings.called =>
        \A r \in DOMAIN we_token_vector :
            LET frame == res_word_embeddings.value[r]
                known == Range(we_token_vector[r]) \cap DOMAIN embedding_dictionary
            IN /\ Range(frame.columns) = known
               /\ Len(frame.columns) = Cardinality(known)
               /\ \A token \in known :
                     /\ token \in DOMAIN frame.data
                     /\ frame.data[token] = embedding_array[embedding_dictionary[token]]

\* C9: a call get_sample(n) with n larger than one of the three frames ends in
\* the ValueError of DataFrame.sample and leaves dataset as it was.
C9_RaiseKeepsDataset ==
    [][ LET n == last_call'.n
        IN (\/ n > Len(preprocessed_dataframe)
            \/ n > Len(preprocessed_source)
            \/ n > Len(preprocessed_target))
           => (last_call'.outcome = "ValueError" /\ dataset' = dataset) ]_vars

\* A call has raised after an earlier call had stored a sample, which is kept.
C9_Witness ==
    /\ last_call.outcome = "ValueError"
    /\ last_success = 1
    /\ Len(dataset) = 2
    /\ dataset # UnsetDataFrame

====
